---- MODULE Spec2Model ----
(***************************************************************************)
(* Battery dispatch simulator (main.py): update_soc, dispatch_strategy and  *)
(* run_all_strategies.                                                      *)
(*                                                                          *)
(* Numbers.  SOC, passive discharge, demand and step size are fractions of  *)
(* the battery capacity in the source; here they are integers in units of   *)
(* 1/One of the capacity (One stands for 1.0).  Efficiencies are integers   *)
(* in percent.  The value sets below are chosen so that every product and   *)
(* quotient the code computes is exact in these units.  Normalised scores   *)
(* are exact fractions num/den, or NaN.                                     *)
(***************************************************************************)
EXTENDS Integers, Sequences, FiniteSets

\* ------------------------------------------------------------------ bounds
\* Longest input series the model enumerates (the script uses 96).
MaxLen == 2
\* Most re-executions of the script (a button press re-runs it) after the first.
MaxReruns == 1
\* Most presses of a playback button in one session.
MaxPresses == 3

\* --------------------------------------------------------------- constants
\* 1.0 as a SOC value, in model units.
One == 1800
\* 0.2, the reserve floor of the discharge guards, in model units.
ReserveFloor == 360
\* Price Arbitrage thresholds.
LowPrice == 80
HighPrice == 150
\* Carbon Minimizer thresholds.
LowCarbon == 200
HighCarbon == 400
\* Blended cutoffs 0.7 and 0.3, in tenths.
ChargeCutoff == 7
DischargeCutoff == 3
\* soc_start of the script, 0.5, in model units.
ScriptSocStart == 900
\* The "/24" of the tariff-hours column.
TariffHoursBase == 24

\* ------------------------------------------------------------ input values
PriceVals == {50, 100, 250}
CarbonVals == {150, 450}
DemandVals == {0, 300}
SocStarts == {0, 360, 1700, 1800}
TariffThresholds == {200}

strategies == << "Blended (Price + Carbon)", "Tariff Avoidance Only",
                 "Price Arbitrage", "Carbon Minimizer" >>

Recognized == {strategies[i] : i \in 1..Len(strategies)}

\* Strategy arguments a caller can pass: the four names and one other string.
StrategyArgs == Recognized \cup {"Unknown"}

\* (capacity kWh, power kW, charge eff. %, discharge eff. %, passive discharge)
\* The first two are configurations the sliders can produce; the others are
\* arguments with a non-positive capacity or efficiency.
SliderSettings == { <<20, 4, 95, 90, 18>>, <<10, 4, 95, 90, 0>> }

BadSettings == { <<-20, 4, 95, 90, 18>>, <<20, 4, -95, 90, 18>>,
                 <<20, 4, 95, 0, 18>> }

\* battery_config: step_size = power / capacity / 2, in model units.
BatteryConfig(s, thr) ==
    [ charge_efficiency    |-> s[3],
      discharge_efficiency |-> s[4],
      step_size            |-> (One * s[2]) \div (2 * s[1]),
      passive_discharge    |-> s[5],
      tariff_threshold     |-> thr ]

SeqsUpTo(S, n) == UNION { [1..k -> S] : k \in 0..n }

\* ----------------------------------------------------------------- helpers
RECURSIVE SeqMin(_)
SeqMin(s) ==
    IF Len(s) = 1 THEN s[1]
    ELSE LET m == SeqMin(Tail(s)) IN IF s[1] <= m THEN s[1] ELSE m

RECURSIVE SeqMax(_)
SeqMax(s) ==
    IF Len(s) = 1 THEN s[1]
    ELSE LET m == SeqMax(Tail(s)) IN IF s[1] >= m THEN s[1] ELSE m

Min2(a, b) == IF a <= b THEN a ELSE b

Max2(a, b) == IF a >= b THEN a ELSE b

Abs(x) == IF x < 0 THEN -x ELSE x

\* zip(prices, carbon, user_demand) stops at the shortest series.
ZipLen(p, c, d) == Min2(Len(p), Min2(Len(c), Len(d)))

\* A score: NaN, or the fraction num/den with den > 0.
NaN == [nan |-> TRUE, num |-> 0, den |-> 1]

NoScore == [nan |-> FALSE, num |-> 0, den |-> 1]

\* 1 - (x - min(series)) / (max(series) - min(series)) on numpy floats:
\* 0/0 is nan when the series has zero variance.
NormScore(x, series) ==
    LET lo == SeqMin(series)
        hi == SeqMax(series)
    IN  IF hi = lo THEN NaN
        ELSE [nan |-> FALSE, num |-> (hi - lo) - (x - lo), den |-> hi - lo]

\* 0.5 * carbon_score + 0.5 * price_score
BlendedScore(cs, ps) ==
    IF cs.nan \/ ps.nan THEN NaN
    ELSE [nan |-> FALSE, num |-> cs.num * ps.den + ps.num * cs.den,
          den |-> 2 * cs.den * ps.den]

\* score > tenths/10 and score < tenths/10; every comparison with nan is False.
ScoreGt(s, tenths) == ~s.nan /\ 10 * s.num > tenths * s.den

ScoreLt(s, tenths) == ~s.nan /\ 10 * s.num < tenths * s.den

\* ------------------------------------------------------------- update_soc
\* The result: the new SOC, or raised (ZeroDivisionError of step / 0.0 on
\* Python floats).
Returned(x) == [raised |-> FALSE, soc |-> x]

Raised == [raised |-> TRUE, soc |-> 0]

\* Mutant of update_soc: the charge branch forgets min(1.0, ...).
update_soc_unclamped(soc, action, config, demand_kWh) ==
    LET step == config.step_size
        s3 == Max2(0, soc - config.passive_discharge - demand_kWh)
    IN  IF action = "charge"
        THEN Returned(s3 + (step * config.charge_efficiency) \div 100)
        ELSE IF action = "discharge"
        THEN IF config.discharge_efficiency = 0 THEN Raised
             ELSE Returned(Max2(0, s3 - (step * 100) \div config.discharge_efficiency))
        ELSE Returned(s3)

\* Mutant of update_soc: the discharge delta has the wrong sign.
update_soc_discharge_adds(soc, action, config, demand_kWh) ==
    LET step == config.step_size
        s3 == Max2(0, soc - config.passive_discharge - demand_kWh)
    IN  IF action = "charge"
        THEN Returned(Min2(One, s3 + (step * config.charge_efficiency) \div 100))
        ELSE IF action = "discharge"
        THEN IF config.discharge_efficiency = 0 THEN Raised
             ELSE Returned(Min2(One, s3 + (step * 100) \div config.discharge_efficiency))
        ELSE Returned(s3)

\* Mutant of update_soc: the action's delta is applied before passive discharge
\* and demand are subtracted.
update_soc_charge_first(soc, action, config, demand_kWh) ==
    LET step == config.step_size
        draw == config.passive_discharge + demand_kWh
    IN  IF action = "charge"
        THEN Returned(Max2(0, Min2(One, soc + (step * config.charge_efficiency) \div 100)
                              - draw))
        ELSE IF action = "discharge"
        THEN IF config.discharge_efficiency = 0 THEN Raised
             ELSE Returned(Max2(0, Max2(0, soc - (step * 100)
                                             \div config.discharge_efficiency) - draw))
        ELSE Returned(Max2(0, soc - draw))

update_soc(soc, action, config, demand_kWh) ==
    LET step == config.step_size
        s1 == soc - config.passive_discharge
        s2 == s1 - demand_kWh
        s3 == Max2(0, s2)
    IN  IF action = "charge"
        THEN Returned(Min2(One, s3 + (step * config.charge_efficiency) \div 100))
        ELSE IF action = "discharge"
        THEN IF config.discharge_efficiency = 0 THEN Raised
             ELSE Returned(Max2(0, s3 - (step * 100) \div config.discharge_efficiency))
        ELSE Returned(s3)

\* ------------------------------------------------ dispatch_strategy: rules
\* The branch of the if/elif chain that decides an interval.
Rule(strategy) ==
    IF strategy = "Tariff Avoidance Only" THEN "tariff"
    ELSE IF strategy = "Price Arbitrage" THEN "price"
    ELSE IF strategy = "Carbon Minimizer" THEN "carbon"
    ELSE "blended"

\* Mutant of ChargeGuard: charging is allowed on a full battery.
ChargeGuardAlways(soc) == soc <= One

\* "soc < 1.0"
ChargeGuard(soc) == soc < One

\* Mutant of DischargeGuard: discharging is allowed at the reserve floor.
DischargeGuardAtFloor(soc) == soc >= ReserveFloor

\* "soc > 0.2"
DischargeGuard(soc) == soc > ReserveFloor

\* Mutant of TariffRule: sells above the threshold.
TariffRuleDischarges(p, soc, config) ==
    IF p < config.tariff_threshold /\ ChargeGuard(soc) THEN "charge"
    ELSE IF p > config.tariff_threshold /\ DischargeGuard(soc) THEN "discharge"
    ELSE "idle"

TariffRule(p, soc, config) ==
    IF p < config.tariff_threshold /\ ChargeGuard(soc) THEN "charge" ELSE "idle"

PriceRule(p, soc) ==
    IF p < LowPrice /\ ChargeGuard(soc) THEN "charge"
    ELSE IF p > HighPrice /\ DischargeGuard(soc) THEN "discharge"
    ELSE "idle"

CarbonRule(c, soc) ==
    IF c < LowCarbon /\ ChargeGuard(soc) THEN "charge"
    ELSE IF c > HighCarbon /\ DischargeGuard(soc) THEN "discharge"
    ELSE "idle"

BlendedRule(ps, cs, soc) ==
    LET blended_score == BlendedScore(cs, ps)
    IN  IF ScoreGt(blended_score, ChargeCutoff) /\ ChargeGuard(soc) THEN "charge"
        ELSE IF ScoreLt(blended_score, DischargeCutoff) /\ DischargeGuard(soc)
        THEN "discharge"
        ELSE "idle"

\* The action of one interval.
Decide(strategy, p, c, soc, config, ps, cs) ==
    CASE Rule(strategy) = "tariff" -> TariffRule(p, soc, config)
      [] Rule(strategy) = "price"  -> PriceRule(p, soc)
      [] Rule(strategy) = "carbon" -> CarbonRule(c, soc)
      [] OTHER                     -> BlendedRule(ps, cs, soc)

\* ------------------------------------------------------------------- state
VARIABLES
    prices, carbon, user_demand,   \* the three series
    battery_capacity_kWh,          \* global read by dispatch_strategy
    battery_config,                \* global config record
    soc_start,                     \* starting SOC handed to every run
    strategy_choice,               \* strategy of the script's own run
    caller,                        \* "api", "main" or "compare"
    strategy,                      \* strategy argument of the current run
    pc,                            \* position of the current run / script
    t,                             \* intervals completed by the current run
    soc,                           \* the loop's SOC
    before_soc, after_soc,         \* the loop's locals of the last interval
    schedule,                      \* records appended by the current run
    rule,                          \* branch that decided the last interval
    price_score, carbon_score,     \* scores of the last Blended interval
    df_schedule,                   \* schedule of the script's own run
    summary,                       \* summary statistics of the script's own run
    si,                            \* index into strategies in run_all_strategies
    comparison,                    \* rows of run_all_strategies
    best_by_cost, best_by_emissions,
    reruns,                        \* re-executions of the script so far
    last_comparison,               \* the table of the previous execution
    animating, paused, frame_idx,  \* st.session_state of the playback (app.py)
    placeholder,                   \* row drawn in the playback placeholder
    button                         \* button whose press started this execution

vars == << prices, carbon, user_demand, battery_capacity_kWh, battery_config,
           soc_start, strategy_choice, caller, strategy, pc, t, soc,
           before_soc, after_soc, schedule, rule, price_score, carbon_score,
           df_schedule, summary, si, comparison, best_by_cost, best_by_emissions,
           reruns, last_comparison, animating, paused, frame_idx, placeholder,
           button >>

inputs == << prices, carbon, user_demand, battery_capacity_kWh, battery_config,
             soc_start, strategy_choice >>

compare_vars == << df_schedule, summary, si, comparison, best_by_cost,
                  best_by_emissions >>

\* The summary before the script has computed it.
NoSummary ==
    [ total_energy_used |-> 0, total_cost |-> 0, total_emissions |-> 0,
      high_tariff_intervals |-> 0 ]

rerun_vars == << reruns, last_comparison >>

play_vars == << animating, paused, frame_idx, placeholder, button >>

\* Mutant of EnterRun: the SOC of the previous run is carried into the next.
EnterRunLeaky(s) ==
    /\ strategy' = s
    /\ pc' = "loop"
    /\ t' = 0
    /\ soc' = soc
    /\ before_soc' = soc
    /\ after_soc' = soc
    /\ schedule' = << >>
    /\ rule' = "none"
    /\ price_score' = NoScore
    /\ carbon_score' = NoScore

\* State on entry to dispatch_strategy(…, soc_start, battery_config, s).
EnterRun(s) ==
    /\ strategy' = s
    /\ pc' = "loop"
    /\ t' = 0
    /\ soc' = soc_start
    /\ before_soc' = soc_start
    /\ after_soc' = soc_start
    /\ schedule' = << >>
    /\ rule' = "none"
    /\ price_score' = NoScore
    /\ carbon_score' = NoScore

\* A call of dispatch_strategy with arguments of the caller's choice.
Init ==
    /\ prices \in SeqsUpTo(PriceVals, MaxLen)
    /\ carbon \in SeqsUpTo(CarbonVals, MaxLen)
    /\ user_demand \in SeqsUpTo(DemandVals, MaxLen)
    /\ \E s \in SliderSettings \cup BadSettings, thr \in TariffThresholds :
         /\ battery_capacity_kWh = s[1]
         /\ battery_config = BatteryConfig(s, thr)
    /\ soc_start \in SocStarts
    /\ strategy_choice \in StrategyArgs
    /\ caller = "api"
    /\ strategy = strategy_choice
    /\ pc = "loop"
    /\ t = 0
    /\ soc = soc_start
    /\ before_soc = soc_start
    /\ after_soc = soc_start
    /\ schedule = << >>
    /\ rule = "none"
    /\ price_score = NoScore
    /\ carbon_score = NoScore
    /\ df_schedule = << >>
    /\ summary = NoSummary
    /\ si = 0
    /\ comparison = << >>
    /\ best_by_cost = 0
    /\ best_by_emissions = 0
    /\ reruns = 0
    /\ last_comparison = << >>
    /\ animating = FALSE
    /\ paused = FALSE
    /\ frame_idx = 0
    /\ placeholder = -1
    /\ button = "none"

\* Mutant of Record: the "soc" field holds the SOC after update_soc.
RecordPostUpdate(i, action, p, c, s, demand_kWh) ==
    [ time            |-> i,
      timestamp       |-> 15 * i,
      action          |-> action,
      price           |-> p,
      carbon          |-> c,
      soc             |-> update_soc(s, action, battery_config, demand_kWh).soc,
      user_demand_kWh |-> demand_kWh * battery_capacity_kWh,
      grid_energy_kWh |-> 0 ]

\* The record appended for interval number i (0-based), before update_soc.
\* "timestamp" is time_range[i], in minutes after the first of its 96 entries;
\* MaxLen stays below 96, where time_range[i] would raise IndexError.
Record(i, action, p, c, s, demand_kWh) ==
    [ time            |-> i,
      timestamp       |-> 15 * i,
      action          |-> action,
      price           |-> p,
      carbon          |-> c,
      soc             |-> s,
      user_demand_kWh |-> demand_kWh * battery_capacity_kWh,
      grid_energy_kWh |-> 0 ]

\* Mutant of GridEnergy: only a rise of the SOC counts as energy from the grid.
GridEnergyImportOnly(before, after) ==
    Max2(0, after - before) * battery_capacity_kWh

\* abs(after_soc - before_soc) * battery_capacity_kWh, held as kWh * One.
GridEnergy(before, after) == Abs(after - before) * battery_capacity_kWh

\* One iteration of the for loop of dispatch_strategy.
LoopBody ==
    /\ pc = "loop"
    /\ t < ZipLen(prices, carbon, user_demand)
    /\ LET p == prices[t + 1]
           c == carbon[t + 1]
           demand_kWh == user_demand[t + 1]
           blended == Rule(strategy) = "blended"
           ps == IF blended THEN NormScore(p, prices) ELSE price_score
           cs == IF blended THEN NormScore(c, carbon) ELSE carbon_score
           action == Decide(strategy, p, c, soc, battery_config, ps, cs)
           rec == Record(t, action, p, c, soc, demand_kWh)
           upd == update_soc(soc, action, battery_config, demand_kWh)
       IN  /\ rule' = Rule(strategy)
           /\ price_score' = ps
           /\ carbon_score' = cs
           /\ IF upd.raised
              THEN /\ schedule' = Append(schedule, rec)
                   /\ before_soc' = soc
                   /\ pc' = "raised"
                   /\ UNCHANGED << soc, after_soc, t >>
              ELSE /\ before_soc' = soc
                   /\ soc' = upd.soc
                   /\ after_soc' = upd.soc
                   /\ schedule' = Append(schedule,
                        [rec EXCEPT !.grid_energy_kWh = GridEnergy(soc, upd.soc)])
                   /\ t' = t + 1
                   /\ pc' = "loop"
    /\ UNCHANGED << inputs, caller, strategy, compare_vars, rerun_vars, play_vars >>

\* The loop is exhausted: return pd.DataFrame(schedule).
Return ==
    /\ pc = "loop"
    /\ t = ZipLen(prices, carbon, user_demand)
    /\ pc' = "returned"
    /\ UNCHANGED << inputs, caller, strategy, t, soc, before_soc, after_soc,
                    schedule, rule, price_score, carbon_score, compare_vars,
                    rerun_vars, play_vars >>

Next == LoopBody \/ Return

Spec == Init /\ [][Next]_vars

\* ------------------------------------------------- the script (main.py)
\* round(x, 2) for x >= 0, with num/den the exact value of x in hundredths; the
\* result is a count of hundredths.  An exact half goes to the even neighbour
\* (Python rounds the nearest double, which may sit on either side).
RoundHalfEven(num, den) ==
    LET q == num \div den
        r == num % den
    IN  IF 2 * r < den THEN q
        ELSE IF 2 * r > den THEN q + 1
        ELSE IF q % 2 = 0 THEN q ELSE q + 1

RECURSIVE SumOver(_, _, _)
\* (df[f] * df["grid_energy_kWh"]).sum() from row i on; f = "one" gives
\* df["grid_energy_kWh"].sum().
SumOver(sched, f, i) ==
    IF i > Len(sched) THEN 0
    ELSE (IF f = "one" THEN 1 ELSE sched[i][f]) * sched[i].grid_energy_kWh
         + SumOver(sched, f, i + 1)

\* Mutant of HighTariffCount: only the high-tariff intervals the strategy sat
\* out idle are counted.
HighTariffCountIdle(sched, thr) ==
    Cardinality({ i \in 1..Len(sched) :
                    sched[i].price > thr /\ sched[i].action = "idle" })

\* df[df["price"] > tariff_threshold].shape[0]
HighTariffCount(sched, thr) ==
    Cardinality({ i \in 1..Len(sched) : sched[i].price > thr })

\* total_energy_used, total_cost, total_emissions and high_tariff_intervals of
\* the script's own run.  Energy is held as kWh * One, cost and emissions as
\* 1000 * One times their value (the division by 1000 is not carried out).
Summary(sched, thr) ==
    [ total_energy_used     |-> SumOver(sched, "one", 1),
      total_cost            |-> SumOver(sched, "price", 1),
      total_emissions       |-> SumOver(sched, "carbon", 1),
      high_tariff_intervals |-> HighTariffCount(sched, thr) ]

\* One comparison row.  Energy, cost and CO2 are in hundredths (two decimals):
\* grid_energy_kWh is held as kWh * One, and cost is price * energy / 1000.
Row(name, sched, thr) ==
    [ Strategy    |-> name,
      Energy      |-> RoundHalfEven(100 * SumOver(sched, "one", 1), One),
      Cost        |-> RoundHalfEven(SumOver(sched, "price", 1), 10 * One),
      CO2         |-> RoundHalfEven(SumOver(sched, "carbon", 1), 10 * One),
      TariffHoursAvoided |-> TariffHoursBase - HighTariffCount(sched, thr),
      BestCost    |-> "",
      BestCarbon  |-> "" ]

RECURSIVE ArgMinLastFrom(_, _, _, _)
ArgMinLastFrom(rows, col, i, best) ==
    IF i > Len(rows) THEN best
    ELSE ArgMinLastFrom(rows, col, i + 1,
                        IF rows[i][col] <= rows[best][col] THEN i ELSE best)

\* Mutant of IdxMin: a tie goes to the last row holding the minimum.
IdxMinLast(rows, col) == ArgMinLastFrom(rows, col, 2, 1)

RECURSIVE ArgMinFrom(_, _, _, _)
\* Scan from row i on; best is the index of the least value seen so far.
ArgMinFrom(rows, col, i, best) ==
    IF i > Len(rows) THEN best
    ELSE ArgMinFrom(rows, col, i + 1,
                    IF rows[i][col] < rows[best][col] THEN i ELSE best)

\* Series.idxmin(): the index (1-based here) of the first minimum.
IdxMin(rows, col) == ArgMinFrom(rows, col, 2, 1)

\* The script: equal-length series, slider configuration, soc_start = 0.5,
\* and the script's own run of dispatch_strategy with strategy_choice.
InitScript ==
    /\ \E n \in 1..MaxLen :
         /\ prices \in [1..n -> PriceVals]
         /\ carbon \in [1..n -> CarbonVals]
         /\ user_demand \in [1..n -> DemandVals]
    /\ \E s \in SliderSettings, thr \in TariffThresholds :
         /\ battery_capacity_kWh = s[1]
         /\ battery_config = BatteryConfig(s, thr)
    /\ soc_start = ScriptSocStart
    /\ strategy_choice \in Recognized
    /\ caller = "main"
    /\ strategy = strategy_choice
    /\ pc = "loop"
    /\ t = 0
    /\ soc = soc_start
    /\ before_soc = soc_start
    /\ after_soc = soc_start
    /\ schedule = << >>
    /\ rule = "none"
    /\ price_score = NoScore
    /\ carbon_score = NoScore
    /\ df_schedule = << >>
    /\ summary = NoSummary
    /\ si = 0
    /\ comparison = << >>
    /\ best_by_cost = 0
    /\ best_by_emissions = 0
    /\ reruns = 0
    /\ last_comparison = << >>
    /\ animating = FALSE
    /\ paused = FALSE
    /\ frame_idx = 0
    /\ placeholder = -1
    /\ button = "none"

\* df_schedule is bound, the summary is computed and run_all_strategies starts
\* its first run.
RunAllStrategies ==
    /\ caller = "main"
    /\ pc = "returned"
    /\ df_schedule' = schedule
    /\ summary' = Summary(schedule, battery_config.tariff_threshold)
    /\ caller' = "compare"
    /\ si' = 1
    /\ comparison' = << >>
    /\ EnterRun(strategies[1])
    /\ UNCHANGED << inputs, best_by_cost, best_by_emissions, rerun_vars, play_vars >>

\* A run of the comparator returned: append its row, go on to the next strategy.
AppendRow ==
    /\ caller = "compare"
    /\ pc = "returned"
    /\ comparison' = Append(comparison,
                            Row(strategy, schedule, battery_config.tariff_threshold))
    /\ IF si < Len(strategies)
       THEN /\ si' = si + 1
            /\ EnterRun(strategies[si + 1])
       ELSE /\ pc' = "compared"
            /\ UNCHANGED << si, strategy, t, soc, before_soc, after_soc,
                            schedule, rule, price_score, carbon_score >>
    /\ UNCHANGED << inputs, caller, df_schedule, summary, best_by_cost,
                    best_by_emissions, rerun_vars, play_vars >>

\* idxmin over cost and over emissions, and the two flag columns.
FlagBest ==
    /\ pc = "compared"
    /\ LET bc == IdxMin(comparison, "Cost")
           be == IdxMin(comparison, "CO2")
       IN  /\ best_by_cost' = bc
           /\ best_by_emissions' = be
           /\ comparison' = [ i \in 1..Len(comparison) |->
                  [ comparison[i] EXCEPT
                      !.BestCost = IF i = bc THEN "best" ELSE "",
                      !.BestCarbon = IF i = be THEN "best" ELSE "" ] ]
    /\ pc' = "flagged"
    /\ UNCHANGED << inputs, caller, strategy, t, soc, before_soc, after_soc,
                    schedule, rule, price_score, carbon_score, df_schedule,
                    summary, si, rerun_vars, play_vars >>

\* A press of the "Play Animation" button re-executes the script from the top
\* with the same widget values and the series kept in st.session_state; every
\* global of the previous execution is gone.  last_comparison keeps the
\* previous table for comparison only; the script does not read it.
Rerun ==
    /\ pc = "flagged"
    /\ reruns < MaxReruns
    /\ reruns' = reruns + 1
    /\ last_comparison' = comparison
    /\ caller' = "main"
    /\ EnterRun(strategy_choice)
    /\ df_schedule' = << >>
    /\ summary' = NoSummary
    /\ si' = 0
    /\ comparison' = << >>
    /\ best_by_cost' = 0
    /\ best_by_emissions' = 0
    /\ UNCHANGED << inputs, play_vars >>

NextScript ==
    LoopBody \/ Return \/ RunAllStrategies \/ AppendRow \/ FlagBest \/ Rerun

SpecScript == InitScript /\ [][NextScript]_vars

\* ------------------------------------------------- the playback (app.py)
\* app.py runs the same dispatch and comparison as main.py and then the
\* playback.  A press of a button re-executes the script from the top with that
\* button returning True; st.session_state survives, every global is rebuilt.
\* A running script gives way to a press where it next calls into st: before
\* a frame is drawn, between the drawing and the captions of a frame, in the
\* paused wait, or once it has finished.
ButtonNames == { "start", "pause", "reset" }

\* First execution: the session state is initialised, no button is pressed.
\* The playback reads nothing of the series but their length, so two price
\* levels and one carbon and one demand level are enough.
InitPlay ==
    /\ InitScript
    /\ \A i \in 1..Len(prices) : prices[i] > LowPrice
    /\ \A i \in 1..Len(carbon) : carbon[i] < LowCarbon
    /\ \A i \in 1..Len(user_demand) : user_demand[i] > 0
    /\ battery_config.passive_discharge > 0

Press(b) ==
    /\ pc \in { "idle", "playing", "plotted", "sleeping" }
    /\ reruns < MaxPresses
    /\ reruns' = reruns + 1
    /\ last_comparison' = comparison
    /\ button' = b
    /\ caller' = "main"
    /\ EnterRun(strategy_choice)
    /\ df_schedule' = << >>
    /\ summary' = NoSummary
    /\ si' = 0
    /\ comparison' = << >>
    /\ best_by_cost' = 0
    /\ best_by_emissions' = 0
    /\ UNCHANGED << inputs, animating, paused, frame_idx, placeholder >>

\* The three button tests, the fresh placeholders and the test of animating.
HandleButtons ==
    /\ pc = "flagged"
    /\ animating' = (CASE button = "start" -> TRUE
                       [] button = "reset" -> FALSE
                       [] OTHER -> animating)
    /\ paused' = (CASE button = "start" -> FALSE
                    [] button = "pause" -> ~paused
                    [] button = "reset" -> FALSE
                    [] OTHER -> paused)
    /\ frame_idx' = IF button = "reset" THEN 0 ELSE frame_idx
    /\ placeholder' = -1
    /\ pc' = IF animating' THEN "playing" ELSE "idle"
    /\ UNCHANGED << inputs, caller, strategy, t, soc, before_soc, after_soc,
                    schedule, rule, price_score, carbon_score, compare_vars,
                    rerun_vars, button >>

\* Mutant of Plot: the frame is drawn without looking at paused.
PlotWhilePaused ==
    /\ pc = "playing"
    /\ animating
    /\ frame_idx < Len(df_schedule)
    /\ placeholder' = frame_idx
    /\ pc' = "plotted"
    /\ UNCHANGED << inputs, caller, strategy, t, soc, before_soc, after_soc,
                    schedule, rule, price_score, carbon_score, compare_vars,
                    rerun_vars, animating, paused, frame_idx, button >>

\* The while test passes, paused is False: row frame_idx is drawn.
Plot ==
    /\ pc = "playing"
    /\ animating
    /\ frame_idx < Len(df_schedule)
    /\ ~paused
    /\ placeholder' = frame_idx
    /\ pc' = "plotted"
    /\ UNCHANGED << inputs, caller, strategy, t, soc, before_soc, after_soc,
                    schedule, rule, price_score, carbon_score, compare_vars,
                    rerun_vars, animating, paused, frame_idx, button >>

\* The captions of the frame, frame_idx += 1 and the frame delay.
Advance ==
    /\ pc = "plotted"
    /\ frame_idx' = frame_idx + 1
    /\ pc' = "playing"
    /\ UNCHANGED << inputs, caller, strategy, t, soc, before_soc, after_soc,
                    schedule, rule, price_score, carbon_score, compare_vars,
                    rerun_vars, animating, paused, placeholder, button >>

\* The while test passes, paused is True: time.sleep(0.1).
Sleep ==
    /\ pc = "playing"
    /\ animating
    /\ frame_idx < Len(df_schedule)
    /\ paused
    /\ pc' = "sleeping"
    /\ UNCHANGED << inputs, caller, strategy, t, soc, before_soc, after_soc,
                    schedule, rule, price_score, carbon_score, compare_vars,
                    rerun_vars, play_vars >>

\* continue: back to the while test.
Wake ==
    /\ pc = "sleeping"
    /\ pc' = "playing"
    /\ UNCHANGED << inputs, caller, strategy, t, soc, before_soc, after_soc,
                    schedule, rule, price_score, carbon_score, compare_vars,
                    rerun_vars, play_vars >>

\* The while test fails: animating = False and the script ends.
LoopExit ==
    /\ pc = "playing"
    /\ ~(animating /\ frame_idx < Len(df_schedule))
    /\ animating' = FALSE
    /\ pc' = "idle"
    /\ UNCHANGED << inputs, caller, strategy, t, soc, before_soc, after_soc,
                    schedule, rule, price_score, carbon_score, compare_vars,
                    rerun_vars, paused, frame_idx, placeholder, button >>

\* What the script does when it is left to run.
ScriptStep ==
    \/ LoopBody \/ Return \/ RunAllStrategies \/ AppendRow \/ FlagBest
    \/ HandleButtons \/ Plot \/ Advance \/ Sleep \/ Wake \/ LoopExit

NextPlay == ScriptStep \/ \E b \in ButtonNames : Press(b)

\* The script's thread is never starved; nobody has to press a button.
SpecPlay == InitPlay /\ [][NextPlay]_vars /\ WF_vars(ScriptStep)

\* ------------------------------------------------------------- properties
\* capacity > 0 and both efficiencies > 0.
ValidConfig ==
    /\ battery_capacity_kWh > 0
    /\ battery_config.charge_efficiency > 0
    /\ battery_config.discharge_efficiency > 0

\* An interval of the current run has been completed by update_soc; its record
\* is schedule[t] and its SOCs are before_soc and after_soc.
Updated == t > 0 /\ pc # "raised"

LastAction == schedule[t].action

\* SOC of the last interval after passive discharge and demand, before the floor.
LastDrained == before_soc - battery_config.passive_discharge - user_demand[t]

\* C1: with a valid configuration, a starting SOC in [0,1] and non-negative
\* passive discharge and demand, the loop's SOC is in [0.0, 1.0] in every
\* state of every run, whatever the strategy.
C1_SocInRange == ValidConfig => (0 <= soc /\ soc <= One)

\* C1 witness: a charge whose sum would exceed 1.0 ends at exactly 1.0.
C1_Witness ==
    /\ ValidConfig
    /\ Updated
    /\ LastAction = "charge"
    /\ soc = One
    /\ LastDrained + (battery_config.step_size
                      * battery_config.charge_efficiency) \div 100 > One

\* C1, the other bound: a draw larger than the SOC ends at exactly 0.0.
C1_ReachedFloor == ValidConfig /\ Updated /\ soc = 0 /\ LastDrained < 0

\* C2: no interval of any run has action "charge" decided on a SOC of 1.0 or
\* action "discharge" decided on a SOC at or below the reserve floor.
C2_BoundaryRespect ==
    Len(schedule) > 0 =>
        LET last == schedule[Len(schedule)]
        IN  /\ last.action = "charge" => before_soc < One
            /\ last.action = "discharge" => before_soc > ReserveFloor

\* C2 witness: Price Arbitrage meets a price above the high threshold with the
\* SOC exactly at the reserve floor and idles.
C2_Witness ==
    /\ strategy = "Price Arbitrage"
    /\ Updated
    /\ before_soc = ReserveFloor
    /\ prices[t] > HighPrice
    /\ LastAction = "idle"

\* C2, the other boundary: Price Arbitrage meets a price below the low
\* threshold with a full battery and idles.
C2_FullBatteryIdles ==
    /\ strategy = "Price Arbitrage"
    /\ Updated
    /\ before_soc = One
    /\ prices[t] < LowPrice
    /\ LastAction = "idle"

\* C3: under Tariff Avoidance every interval's action is "charge" exactly when
\* price < tariff_threshold and SOC < 1.0, and "idle" otherwise; never
\* "discharge".
C3_TariffAvoidance ==
    (strategy = "Tariff Avoidance Only" /\ Len(schedule) > 0) =>
        LET n == Len(schedule)
        IN  /\ schedule[n].action \in {"charge", "idle"}
            /\ schedule[n].action = "charge" <=>
                 (prices[n] < battery_config.tariff_threshold /\ before_soc < One)
            /\ \A i \in 1..n : schedule[i].action # "discharge"

\* C3 witness: a Tariff Avoidance run that charged on a price below the
\* threshold and then idled on a price above it with room to discharge.
C3_Witness ==
    /\ strategy = "Tariff Avoidance Only"
    /\ Updated
    /\ prices[t] > battery_config.tariff_threshold
    /\ before_soc > ReserveFloor
    /\ LastAction = "idle"
    /\ \E i \in 1..(t - 1) : schedule[i].action = "charge"

\* C4: every interval has one action of {charge, discharge, idle}; with a valid
\* configuration a discharge interval never ends above the SOC it started on,
\* and a charge interval never ends below the SOC left after passive discharge
\* and demand (floored at 0).
C4_ActionDirection ==
    /\ \A i \in 1..Len(schedule) :
         schedule[i].action \in {"charge", "discharge", "idle"}
    /\ (ValidConfig /\ Updated) =>
         /\ LastAction = "discharge" => after_soc <= before_soc
         /\ LastAction = "charge" => after_soc >= Max2(0, LastDrained)

\* C4 witness: a charge interval whose draw exceeds the charge delta (the SOC
\* fell although the action was charge), after a discharge interval.
C4_Witness ==
    /\ ValidConfig
    /\ Updated
    /\ LastAction = "charge"
    /\ after_soc < before_soc
    /\ after_soc > Max2(0, LastDrained)
    /\ \E i \in 1..(t - 1) : schedule[i].action = "discharge"

\* A score equal to 0.5.
IsHalf(s) == ~s.nan /\ 2 * s.num = s.den

\* C5 (as claimed): an interval decided by the Blended rule on a price (carbon)
\* series whose max equals its min uses 0.5 as the price (carbon) score; stated
\* for runs with a valid configuration and the Blended strategy name.
C5_NeutralScore ==
    (ValidConfig /\ strategy = strategies[1] /\ rule = "blended") =>
        /\ SeqMax(prices) = SeqMin(prices) => IsHalf(price_score)
        /\ SeqMax(carbon) = SeqMin(carbon) => IsHalf(carbon_score)

C7_MismatchIsFatal ==
    (ValidConfig /\ strategy \in Recognized /\ Len(prices) > 0 /\ pc = "returned") =>
        /\ Len(prices) = Len(carbon)
        /\ Len(carbon) = Len(user_demand)
        /\ Len(prices) > 0

\* C8 (as claimed): with a non-positive capacity or efficiency no record is
\* appended and no SOC update happens.
C8_InvalidConfigRejected == ~ValidConfig => (Len(schedule) = 0 /\ t = 0)

\* C9 (as claimed): in a run with an unrecognized strategy name no interval is
\* decided by any rule; stated for runs with a valid configuration.
C9_NoFallthrough == (ValidConfig /\ strategy \notin Recognized) => rule = "none"

\* C10: after the flags are set, one row has the best-cost flag and one the
\* best-carbon flag; each is a row with the minimum of its column and the
\* first such row in the order the strategies were run.
FlaggedFirstMin(col, flag) ==
    \E i \in 1..Len(comparison) :
        /\ comparison[i][flag] = "best"
        /\ \A j \in 1..Len(comparison) :
             /\ j # i => comparison[j][flag] = ""
             /\ comparison[i][col] <= comparison[j][col]
             /\ j < i => comparison[j][col] > comparison[i][col]

C10_BestFlags ==
    pc = "flagged" =>
        /\ Len(comparison) = Len(strategies)
        /\ \A i \in 1..Len(comparison) : comparison[i].Strategy = strategies[i]
        /\ FlaggedFirstMin("Cost", "BestCost")
        /\ FlaggedFirstMin("CO2", "BestCarbon")

\* C10 witness: two rows tie for the minimum cost, the earlier one is flagged
\* and it is not the first row; the best-carbon row is another row.
C10_Witness ==
    /\ pc = "flagged"
    /\ \E i, j \in 2..Len(comparison) :
         /\ i < j
         /\ comparison[i].Cost = comparison[j].Cost
         /\ comparison[i].BestCost = "best"
         /\ comparison[j].BestCost = ""
         /\ comparison[i].BestCarbon = ""

\* C11: runs do not influence each other.  Every run of the script and of the
\* comparator starts from soc_start with an empty schedule; the comparator's
\* run of the strategy the script ran on its own returns the same schedule,
\* whatever runs came before it; and a second execution of the script with the
\* same inputs yields the same comparison table, hence the same best-cost and
\* best-carbon rows.
C11_RunsIndependent ==
    /\ (pc = "loop" /\ t = 0) => (soc = soc_start /\ schedule = << >>)
    /\ Len(schedule) > 0 => schedule[1].soc = soc_start
    /\ (caller = "compare" /\ pc = "returned" /\ strategy = strategy_choice) =>
         schedule = df_schedule
    /\ (pc = "flagged" /\ reruns > 0) =>
         /\ comparison = last_comparison
         /\ \A i \in 1..Len(comparison) :
              /\ comparison[i].BestCost = last_comparison[i].BestCost
              /\ comparison[i].BestCarbon = last_comparison[i].BestCarbon

\* C11 witness: the second execution has flagged its table; the script's own
\* strategy was the last of the comparator (three other runs came before it),
\* it moved the SOC away from soc_start, and the runs before it ended elsewhere
\* (their energy differs).
C11_Witness ==
    /\ pc = "flagged"
    /\ reruns = 1
    /\ strategy_choice = strategies[4]
    /\ Len(df_schedule) > 1
    /\ soc # soc_start
    /\ schedule = df_schedule
    /\ \E i \in 1..3 : comparison[i].Energy # comparison[4].Energy

\* SOC after update_soc of interval i (1-based) of the current run, read off
\* the next record (C6) or, for the last interval, the loop's SOC.
PostSocAt(i) == IF i < Len(schedule) THEN schedule[i + 1].soc ELSE soc

RECURSIVE PathSum(_, _)
\* Sum over the intervals from i on of weight * |SOC after - SOC before| *
\* capacity, with weight 1 ("one"), the price or the carbon intensity.
PathSum(f, i) ==
    IF i > Len(schedule) THEN 0
    ELSE (CASE f = "one" -> 1 [] f = "price" -> prices[i] [] OTHER -> carbon[i])
           * Abs(PostSocAt(i) - schedule[i].soc) * battery_capacity_kWh
         + PathSum(f, i + 1)

\* C12: the grid_energy_kWh of an interval is |SOC after its update - SOC
\* before its update| * capacity, the SOC before being the one passive discharge
\* and demand are subtracted from; an idle interval with a positive draw and a
\* positive SOC records a positive grid energy; the totals of the summary and
\* of the comparison rows are sums of this quantity.
C12_GridEnergy ==
    /\ Updated =>
         /\ schedule[t].grid_energy_kWh
              = Abs(after_soc - before_soc) * battery_capacity_kWh
         /\ schedule[t].soc = before_soc
         /\ after_soc = update_soc(before_soc, LastAction, battery_config,
                                   user_demand[t]).soc
         /\ (/\ LastAction = "idle"
             /\ before_soc > 0
             /\ battery_config.passive_discharge + user_demand[t] > 0)
              => schedule[t].grid_energy_kWh > 0
    /\ (caller = "compare" /\ pc = "returned" /\ strategy = strategy_choice) =>
         /\ summary.total_energy_used = PathSum("one", 1)
         /\ summary.total_cost = PathSum("price", 1)
         /\ summary.total_emissions = PathSum("carbon", 1)
    /\ pc = "compared" =>
         /\ comparison[si].Energy = RoundHalfEven(100 * PathSum("one", 1), One)
         /\ comparison[si].Cost = RoundHalfEven(PathSum("price", 1), 10 * One)
         /\ comparison[si].CO2 = RoundHalfEven(PathSum("carbon", 1), 10 * One)

\* C12 witness: an idle interval with no passive discharge, a positive demand
\* and a positive SOC has recorded a positive grid energy.
C12_Witness ==
    /\ Updated
    /\ LastAction = "idle"
    /\ before_soc > 0
    /\ battery_config.passive_discharge = 0
    /\ user_demand[t] > 0
    /\ schedule[t].grid_energy_kWh = user_demand[t] * battery_capacity_kWh

\* clamp to [0.0, 1.0].
Clamp01(x) == Max2(0, Min2(One, x))

\* The signed change an action applies to the SOC: + step_size *
\* charge_efficiency on charge, - step_size / discharge_efficiency on
\* discharge, nothing on idle.
Delta(action) ==
    CASE action = "charge" ->
           (battery_config.step_size * battery_config.charge_efficiency) \div 100
      [] action = "discharge" ->
           0 - (battery_config.step_size * 100)
                 \div battery_config.discharge_efficiency
      [] OTHER -> 0

\* C13: with a valid configuration, the SOC after an interval's update is
\* clamp(max(0, SOC before - passive discharge - demand) + delta(action)): the
\* draws come first, then the floor at 0, then the action's delta, then the
\* clamp; a charge in an interval whose draws take the battery to the floor
\* ends at exactly min(1, step_size * charge_efficiency).
C13_UpdateOrder ==
    (Updated /\ ValidConfig) =>
        /\ after_soc = Clamp01(Max2(0, LastDrained) + Delta(LastAction))
        /\ (LastAction = "charge" /\ LastDrained <= 0) =>
             after_soc = Min2(One, Delta("charge"))

\* C13 witness: a charge in an interval whose demand exceeds the stored energy
\* has ended at step_size * charge_efficiency, above the floor.
C13_Witness ==
    /\ Updated
    /\ ValidConfig
    /\ LastAction = "charge"
    /\ user_demand[t] > before_soc
    /\ LastDrained < 0
    /\ after_soc = Delta("charge")
    /\ after_soc > 0

\* Number of intervals of the price series above the tariff threshold.
HighPriceIntervals ==
    Cardinality({ k \in 1..Len(prices) :
                    prices[k] > battery_config.tariff_threshold })

\* C14: "Tariff Hours Avoided" of every comparison row is 24 minus the number
\* of intervals whose price exceeds the tariff threshold, a function of the
\* price series and the threshold alone, hence the same in all rows whatever
\* each strategy did; high_tariff_intervals of the summary is that number.
C14_TariffHoursAvoided ==
    /\ \A i \in 1..Len(comparison) :
         comparison[i].TariffHoursAvoided = TariffHoursBase - HighPriceIntervals
    /\ \A i, j \in 1..Len(comparison) :
         comparison[i].TariffHoursAvoided = comparison[j].TariffHoursAvoided
    /\ caller = "compare" => summary.high_tariff_intervals = HighPriceIntervals

\* C14 witness: the four rows are complete, some price exceeds the threshold,
\* two strategies moved different amounts of energy, and the rows still agree
\* on a value below 24.
C14_Witness ==
    /\ pc = "flagged"
    /\ HighPriceIntervals > 0
    /\ \E i, j \in 1..Len(comparison) : comparison[i].Energy # comparison[j].Energy
    /\ \A i \in 1..Len(comparison) :
         comparison[i].TariffHoursAvoided = TariffHoursBase - HighPriceIntervals

\* The script is in or past the playback: df_schedule is bound.
InPlayback == pc \in { "idle", "playing", "plotted", "sleeping" }

\* The loop is running with paused False.
Playing == pc \in { "playing", "plotted" } /\ animating /\ ~paused

\* The script has ended with every row played.
Completed == pc = "idle" /\ frame_idx = Len(df_schedule) /\ ~animating

\* C15: in the playback of app.py, frame_idx never exceeds the length of the
\* schedule; it decreases only to 0 and only by Reset; it increases only by
\* one, right after the row it pointed at was drawn, with animating True and
\* paused False; while paused stays True neither frame_idx nor the frame on
\* display changes; the playback leaves df_schedule alone; a frame is drawn
\* only for a frame_idx below the length, so a Start after completion draws
\* none; and a loop that runs unpaused ends with frame_idx at the length and
\* animating False unless Pause or Reset gets in its way.
C15_Playback ==
    /\ [](/\ 0 <= frame_idx
          /\ frame_idx <= Len(prices)
          /\ InPlayback => frame_idx <= Len(df_schedule))
    /\ [][frame_idx' < frame_idx => (button = "reset" /\ frame_idx' = 0)]_vars
    /\ [][frame_idx' > frame_idx =>
            /\ frame_idx' = frame_idx + 1
            /\ placeholder = frame_idx
            /\ animating /\ ~paused
            /\ animating' /\ ~paused']_vars
    /\ [][(paused /\ paused') =>
            (frame_idx' = frame_idx /\ placeholder' = placeholder)]_vars
    /\ [][(InPlayback /\ InPlayback') => df_schedule' = df_schedule]_vars
    /\ [][(placeholder' # placeholder /\ placeholder' # -1) =>
            /\ placeholder' = frame_idx
            /\ frame_idx < Len(df_schedule)
            /\ animating /\ ~paused]_vars
    /\ Playing ~> (Completed \/ paused \/ button = "reset")

\* C15 witness: Start, Pause and Resume were pressed and the playback has run
\* to the end of a schedule of more than one row: the last row is on display,
\* frame_idx is the length and animating is False.
C15_Witness ==
    /\ Completed
    /\ Len(df_schedule) > 1
    /\ reruns = MaxPresses
    /\ button = "pause"
    /\ ~paused
    /\ placeholder = Len(df_schedule) - 1

\* A Start pressed with every row already played: the loop is entered with
\* frame_idx at the length and nothing on display.
C15_StartAfterCompletion ==
    /\ pc = "playing"
    /\ button = "start"
    /\ reruns > 1
    /\ frame_idx = Len(df_schedule)
    /\ placeholder = -1

\* The loop is waiting in its paused branch with rows left to play.
C15_PausedMidway ==
    /\ pc = "sleeping"
    /\ paused
    /\ 0 < frame_idx
    /\ frame_idx < Len(df_schedule)

====
